---- MODULE Spec2Model ----
(***************************************************************************)
(* Model of package lambda_s3 (src/lib.go): GetHeaders, UploadHeader,      *)
(* Download and Delete, together with the library routines they call      *)
(* (net/http header canonicalisation, mime.ParseMediaType, the multipart  *)
(* reader's ReadForm, filepath.Join) and the S3 backend they talk to.     *)
(*                                                                         *)
(* Strings are sequences of bytes (ASCII codes), so that parsing,         *)
(* encoding and path cleaning are computed and not assumed.  The library  *)
(* routines are those of go 1.18, the version go.mod names.               *)
(***************************************************************************)
EXTENDS Integers, Sequences, FiniteSets, TLC

VARIABLES
    input,        \* the request handed to GetHeaders, and the parts its body was generated from
    fileHeaders,  \* the []*multipart.FileHeader the caller holds from its last GetHeaders
    awsConfigOK,  \* whether session.NewSession succeeds in this process environment
    store,        \* the S3 backend: the bytes of every object, by <<bucket, key>>
    history,      \* by <<bucket, key>>: the last successful change of the object
    last          \* the last call: its arguments, what it returned, the sessions and requests it
                  \* made and the files it left open

vars == <<input, fileHeaders, awsConfigOK, store, history, last>>

(***************************************************************************)
(* Bounds of the model.                                                    *)
(***************************************************************************)
MaxContentLen == 2      \* longest file content in a generated request
MaxParts == 2           \* most parts in a generated multipart body

(***************************************************************************)
(* Byte strings.                                                           *)
(***************************************************************************)
Empty == <<>>

Min(S) == CHOOSE x \in S : \A y \in S : x <= y

Max(S) == CHOOSE x \in S : \A y \in S : x >= y

Suffix(s, i) == SubSeq(s, i, Len(s))

HasPrefixAt(s, i, p) == i + Len(p) - 1 <= Len(s) /\ SubSeq(s, i, i + Len(p) - 1) = p

HasPrefix(s, p) == HasPrefixAt(s, 1, p)

\* unicode.IsSpace on ASCII: \t \n \v \f \r and space
IsSpace(c) == c \in {9, 10, 11, 12, 13, 32}

ToLowerByte(c) == IF c \in 65..90 THEN c + 32 ELSE c

ToUpperByte(c) == IF c \in 97..122 THEN c - 32 ELSE c

ToLower(s) == [i \in 1..Len(s) |-> ToLowerByte(s[i])]

TrimLeftSpace(s) ==
    LET keep == {i \in 1..Len(s) : ~IsSpace(s[i])}
    IN  IF keep = {} THEN Empty ELSE Suffix(s, Min(keep))

TrimSpace(s) ==
    LET keep == {i \in 1..Len(s) : ~IsSpace(s[i])}
    IN  IF keep = {} THEN Empty ELSE SubSeq(s, Min(keep), Max(keep))

\* a Go map[string]string: lookup of an absent key gives ""
EmptyMap == [k \in {} |-> Empty]

MapGet(m, k) == IF k \in DOMAIN m THEN m[k] ELSE Empty

MapPut(m, k, v) == [x \in (DOMAIN m) \cup {k} |-> IF x = k THEN v ELSE m[x]]

(***************************************************************************)
(* mime: tokens, parameter values, ParseMediaType (called at lib.go:140    *)
(* and by the multipart reader for each part's Content-Disposition).      *)
(***************************************************************************)
\* the tspecials of RFC 1521: ( ) < > @ , ; : \ " / [ ] ? =
isTSpecial(c) == c \in {40, 41, 60, 62, 64, 44, 59, 58, 92, 34, 47, 91, 93, 63, 61}

isTokenChar(c) == c > 32 /\ c < 127 /\ ~isTSpecial(c)

consumeToken(v) ==
    LET bad == {i \in 1..Len(v) : ~isTokenChar(v[i])}
    IN  IF bad = {} THEN [token |-> v, rest |-> Empty]
        ELSE IF Min(bad) = 1 THEN [token |-> Empty, rest |-> v]
        ELSE [token |-> SubSeq(v, 1, Min(bad) - 1), rest |-> Suffix(v, Min(bad))]

RECURSIVE consumeQuoted(_, _, _)
consumeQuoted(v, i, buffer) ==
    IF i > Len(v) THEN [token |-> Empty, rest |-> v]                 \* no end quote
    ELSE IF v[i] = 34 THEN [token |-> buffer, rest |-> Suffix(v, i + 1)]
    ELSE IF v[i] = 92 /\ i + 1 <= Len(v) /\ isTSpecial(v[i + 1])
         THEN consumeQuoted(v, i + 2, Append(buffer, v[i + 1]))
    ELSE IF v[i] \in {13, 10} THEN [token |-> Empty, rest |-> v]
    ELSE consumeQuoted(v, i + 1, Append(buffer, v[i]))

consumeValue(v) ==
    IF v = Empty THEN [token |-> Empty, rest |-> Empty]
    ELSE IF v[1] # 34 THEN consumeToken(v)
    ELSE consumeQuoted(v, 2, Empty)

\* the LET operators bind each intermediate result once, in the order the code computes them
consumeMediaParam(v) ==
    LET fail == [param |-> Empty, value |-> Empty, rest |-> v]
        WithValue(key, r4, val) ==
            IF val.token = Empty /\ val.rest = r4 THEN fail
            ELSE [param |-> ToLower(key), value |-> val.token, rest |-> val.rest]
        AfterEquals(key, r4) == WithValue(key, r4, consumeValue(r4))
        WithEquals(key, r3) ==
            IF ~HasPrefix(r3, <<61>>) THEN fail
            ELSE AfterEquals(key, TrimLeftSpace(Suffix(r3, 2)))
        WithKey(key) ==
            IF key.token = Empty THEN fail
            ELSE WithEquals(key.token, TrimLeftSpace(key.rest))
        WithSemicolon(r1) ==
            IF ~HasPrefix(r1, <<59>>) THEN fail
            ELSE WithKey(consumeToken(TrimLeftSpace(Suffix(r1, 2))))
    IN  WithSemicolon(TrimLeftSpace(v))

\* TRUE when s is "token" or "token/token"
checkMediaTypeDisposition(s) ==
    LET WithSubtype(sub) == sub.token # Empty /\ sub.rest = Empty
        WithType(typ) ==
            IF typ.token = Empty THEN FALSE
            ELSE IF typ.rest = Empty THEN TRUE
            ELSE IF ~HasPrefix(typ.rest, <<47>>) THEN FALSE
            ELSE WithSubtype(consumeToken(Suffix(typ.rest, 2)))
    IN  WithType(consumeToken(s))

RECURSIVE parseMediaParams(_, _)
parseMediaParams(v, params) ==
    LET WithParam(p) ==
            IF p.param = Empty
            THEN IF TrimSpace(p.rest) = <<59>>
                 THEN [ok |-> TRUE, params |-> params]      \* trailing semicolon
                 ELSE [ok |-> FALSE, params |-> EmptyMap]   \* ErrInvalidMediaParameter
            ELSE IF p.param \in DOMAIN params /\ params[p.param] # p.value
                 THEN [ok |-> FALSE, params |-> EmptyMap]   \* duplicate parameter name
            ELSE parseMediaParams(p.rest, MapPut(params, p.param, p.value))
        WithRest(t) ==
            IF t = Empty THEN [ok |-> TRUE, params |-> params]
            ELSE WithParam(consumeMediaParam(t))
    IN  WithRest(TrimLeftSpace(v))

\* parameters holding a '*' (RFC 2231 continuations) do not occur in the requests generated here
ParseMediaType(v) ==
    LET semis == {i \in 1..Len(v) : v[i] = 59}
        WithParams(mediatype, rest) ==
            IF ~rest.ok THEN [ok |-> FALSE, mediatype |-> mediatype, params |-> EmptyMap]
            ELSE [ok |-> TRUE, mediatype |-> mediatype, params |-> rest.params]
        WithMediaType(base, mediatype) ==
            IF ~checkMediaTypeDisposition(mediatype)
            THEN [ok |-> FALSE, mediatype |-> Empty, params |-> EmptyMap]
            ELSE WithParams(mediatype, parseMediaParams(Suffix(v, Len(base) + 1), EmptyMap))
        WithBase(base) == WithMediaType(base, TrimSpace(ToLower(base)))
    IN  WithBase(IF semis = {} THEN v ELSE SubSeq(v, 1, Min(semis) - 1))

(***************************************************************************)
(* net/http: Header.Add and Header.Get canonicalise the key.               *)
(***************************************************************************)
RECURSIVE canonicalFrom(_, _, _)
canonicalFrom(key, i, upper) ==
    IF i > Len(key) THEN Empty
    ELSE LET c == IF upper THEN ToUpperByte(key[i]) ELSE ToLowerByte(key[i])
         IN  <<c>> \o canonicalFrom(key, i + 1, key[i] = 45)

\* the tchar of RFC 7230
validHeaderFieldByte(c) == isTokenChar(c) /\ c \notin {123, 125}

CanonicalMIMEHeaderKey(key) ==
    IF \E i \in 1..Len(key) : ~validHeaderFieldByte(key[i]) THEN key
    ELSE canonicalFrom(key, 1, TRUE)

(***************************************************************************)
(* mime/multipart.Writer, as generateUploadFileReq drives it               *)
(* (lib_test.go:246-275): a part is [name, filename, content]; a part     *)
(* with an empty filename is a plain form field.                           *)
(***************************************************************************)
CRLF == <<13, 10>>

DashDash == <<45, 45>>

ContentDispositionKey == <<67, 111, 110, 116, 101, 110, 116, 45, 68, 105, 115, 112, 111, 115, 105, 116, 105, 111, 110>>

ContentTypeKey == <<67, 111, 110, 116, 101, 110, 116, 45, 84, 121, 112, 101>>

\* "form-data"
FormData == <<102, 111, 114, 109, 45, 100, 97, 116, 97>>

\* "name", "filename", "boundary"
NameParam == <<110, 97, 109, 101>>

FilenameParam == <<102, 105, 108, 101, 110, 97, 109, 101>>

BoundaryParam == <<98, 111, 117, 110, 100, 97, 114, 121>>

\* "application/octet-stream"
OctetStream == <<97, 112, 112, 108, 105, 99, 97, 116, 105, 111, 110, 47, 111, 99, 116, 101, 116, 45, 115, 116, 114, 101, 97, 109>>

\* "multipart/form-data"
MultipartFormData == <<109, 117, 108, 116, 105, 112, 97, 114, 116, 47, 102, 111, 114, 109, 45, 100, 97, 116, 97>>

RECURSIVE escapeQuotes(_)
escapeQuotes(s) ==
    IF s = Empty THEN Empty
    ELSE (IF s[1] \in {92, 34} THEN <<92, s[1]>> ELSE <<s[1]>>) \o escapeQuotes(Tail(s))

\* Content-Disposition: form-data; name="<name>"[; filename="<filename>"]
ContentDisposition(part) ==
    FormData \o <<59, 32>> \o NameParam \o <<61, 34>> \o escapeQuotes(part.name) \o <<34>>
    \o (IF part.filename = Empty THEN Empty
        ELSE <<59, 32>> \o FilenameParam \o <<61, 34>> \o escapeQuotes(part.filename) \o <<34>>)

\* CreateFormFile / CreateFormField followed by Write(content)
WritePart(boundary, first, part) ==
    (IF first THEN Empty ELSE CRLF) \o DashDash \o boundary \o CRLF
    \o ContentDispositionKey \o <<58, 32>> \o ContentDisposition(part) \o CRLF
    \o (IF part.filename = Empty THEN Empty
        ELSE ContentTypeKey \o <<58, 32>> \o OctetStream \o CRLF)
    \o CRLF
    \o part.content

RECURSIVE WriteParts(_, _, _)
WriteParts(boundary, parts, i) ==
    IF i > Len(parts) THEN Empty
    ELSE WritePart(boundary, i = 1, parts[i]) \o WriteParts(boundary, parts, i + 1)

\* the buffer after writer.Close()
WriteMultipart(boundary, parts) ==
    WriteParts(boundary, parts, 1) \o CRLF \o DashDash \o boundary \o DashDash \o CRLF

\* writer.FormDataContentType()
FormDataContentType(boundary) ==
    MultipartFormData \o <<59, 32>> \o BoundaryParam \o <<61>>
    \o (IF \E i \in 1..Len(boundary) : isTSpecial(boundary[i]) \/ boundary[i] = 32
        THEN <<34>> \o boundary \o <<34>>
        ELSE boundary)

(***************************************************************************)
(* encoding/base64: StdEncoding.EncodeToString (lib_test.go:279).          *)
(***************************************************************************)
Base64Alphabet ==
    <<65, 66, 67, 68, 69, 70, 71, 72, 73, 74, 75, 76, 77, 78, 79, 80, 81, 82, 83, 84, 85, 86, 87,
      88, 89, 90, 97, 98, 99, 100, 101, 102, 103, 104, 105, 106, 107, 108, 109, 110, 111, 112,
      113, 114, 115, 116, 117, 118, 119, 120, 121, 122, 48, 49, 50, 51, 52, 53, 54, 55, 56, 57,
      43, 47>>

RECURSIVE base64From(_, _)
base64From(src, i) ==
    LET n   == Len(src) - i + 1
        b0  == src[i]
        b1  == IF n >= 2 THEN src[i + 1] ELSE 0
        b2  == IF n >= 3 THEN src[i + 2] ELSE 0
        val == b0 * 65536 + b1 * 256 + b2
    IN  IF n <= 0 THEN Empty
        ELSE << Base64Alphabet[(val \div 262144) + 1],
                Base64Alphabet[((val \div 4096) % 64) + 1],
                IF n >= 2 THEN Base64Alphabet[((val \div 64) % 64) + 1] ELSE 61,
                IF n >= 3 THEN Base64Alphabet[(val % 64) + 1] ELSE 61 >>
             \o base64From(src, i + 3)

EncodeToString(src) == base64From(src, 1)

(***************************************************************************)
(* mime/multipart.Reader: NextPart, the part's MIME header and content,    *)
(* and ReadForm (called at lib.go:151-153).  Lines end in CRLF, as the     *)
(* writer above produces them.                                             *)
(***************************************************************************)
\* path/filepath.Base, which Part.FileName applies to the filename parameter
Base(path) ==
    LET keep    == {i \in 1..Len(path) : path[i] # 47}
        trimmed == IF keep = {} THEN Empty ELSE SubSeq(path, 1, Max(keep))
        slashes == {i \in 1..Len(trimmed) : trimmed[i] = 47}
    IN  IF path = Empty THEN <<46>>
        ELSE IF trimmed = Empty THEN <<47>>
        ELSE IF slashes = {} THEN trimmed
        ELSE Suffix(trimmed, Max(slashes) + 1)

skipLWSPChar(b) ==
    LET keep == {i \in 1..Len(b) : b[i] \notin {32, 9}}
    IN  IF keep = {} THEN Empty ELSE Suffix(b, Min(keep))

isBoundaryDelimiterLine(line, boundary) ==
    /\ HasPrefix(line, DashDash \o boundary)
    /\ skipLWSPChar(Suffix(line, Len(boundary) + 3)) = CRLF

isFinalBoundary(line, boundary) ==
    /\ HasPrefix(line, DashDash \o boundary \o DashDash)
    /\ skipLWSPChar(Suffix(line, Len(boundary) + 5)) \in {Empty, CRLF}

\* bufio.Reader.ReadSlice('\n') at pos: the line with its newline, or the rest at end of input
ReadSlice(body, pos) ==
    LET nls == {i \in pos..Len(body) : body[i] = 10}
    IN  IF nls = {} THEN [line |-> Suffix(body, pos), next |-> Len(body) + 1, eof |-> TRUE]
        ELSE [line |-> SubSeq(body, pos, Min(nls)), next |-> Min(nls) + 1, eof |-> FALSE]

\* Reader.NextPart up to the boundary line: "part" (a part starts at pos), "eof" or "error"
RECURSIVE nextPart(_, _, _, _, _)
nextPart(body, boundary, pos, partsRead, expectNewPart) ==
    LET l == ReadSlice(body, pos)
    IN  IF l.eof /\ isFinalBoundary(l.line, boundary) THEN [kind |-> "eof", pos |-> l.next]
        ELSE IF l.eof THEN [kind |-> "error", pos |-> l.next]
        ELSE IF isBoundaryDelimiterLine(l.line, boundary) THEN [kind |-> "part", pos |-> l.next]
        ELSE IF isFinalBoundary(l.line, boundary) THEN [kind |-> "eof", pos |-> l.next]
        ELSE IF expectNewPart THEN [kind |-> "error", pos |-> l.next]
        ELSE IF partsRead = 0 THEN nextPart(body, boundary, l.next, partsRead, FALSE)
        ELSE IF l.line = CRLF THEN nextPart(body, boundary, l.next, partsRead, TRUE)
        ELSE [kind |-> "error", pos |-> l.next]

\* a line without its line ending, trimmed of spaces and tabs
trim(s) ==
    LET keep == {i \in 1..Len(s) : s[i] \notin {32, 9}}
    IN  IF keep = {} THEN Empty ELSE SubSeq(s, Min(keep), Max(keep))

stripNewline(line) ==
    IF Len(line) >= 2 /\ Suffix(line, Len(line) - 1) = CRLF THEN SubSeq(line, 1, Len(line) - 2)
    ELSE IF Len(line) >= 1 /\ line[Len(line)] = 10 THEN SubSeq(line, 1, Len(line) - 1)
    ELSE line

\* textproto.Reader.ReadMIMEHeader: "Key: value" lines up to a blank line
\* (continuation lines do not occur in the requests generated here)
RECURSIVE readMIMEHeader(_, _, _)
readMIMEHeader(body, pos, header) ==
    LET WithKey(next, k, key, value) ==
            IF k = Empty \/ \E i \in 1..Len(k) : ~validHeaderFieldByte(k[i])
            THEN [kind |-> "error", header |-> header, pos |-> next]
            ELSE readMIMEHeader(body, next,
                     MapPut(header, key, IF key \in DOMAIN header
                                         THEN Append(header[key], value) ELSE <<value>>))
        WithColon(next, kv, colon) ==
            WithKey(next, SubSeq(kv, 1, colon - 1),
                    CanonicalMIMEHeaderKey(SubSeq(kv, 1, colon - 1)),
                    skipLWSPChar(Suffix(kv, colon + 1)))
        WithLine(next, kv) ==
            IF kv = Empty THEN [kind |-> "ok", header |-> header, pos |-> next]
            ELSE IF \A i \in 1..Len(kv) : kv[i] # 58
                 THEN [kind |-> "error", header |-> header, pos |-> next]
            ELSE WithColon(next, kv, Min({i \in 1..Len(kv) : kv[i] = 58}))
        WithSlice(l) == WithLine(l.next, trim(stripNewline(l.line)))
    IN  IF pos > Len(body) THEN [kind |-> "eof", header |-> header, pos |-> pos]
        ELSE WithSlice(ReadSlice(body, pos))

\* MIMEHeader.Get: the first value under the key, or ""
HeaderGet(header, key) == IF key \in DOMAIN header THEN header[key][1] ELSE Empty

\* matchAfterPrefix: does what follows "--boundary" at position j make it a delimiter
matchAfterPrefix(body, j) ==
    \/ j > Len(body)
    \/ body[j] \in {32, 9, 13, 10}
    \/ body[j] = 45 /\ j + 1 <= Len(body) /\ body[j + 1] = 45

\* Part.Read to its end (scanUntilBoundary): the bytes before the next delimiter;
\* without a delimiter the read ends in io.ErrUnexpectedEOF
partContent(body, boundary, pos) ==
    LET dashBoundary   == DashDash \o boundary
        nlDashBoundary == CRLF \o dashBoundary
        ends == {i \in pos..Len(body) :
                   \/ i = pos /\ HasPrefixAt(body, i, dashBoundary)
                              /\ matchAfterPrefix(body, i + Len(dashBoundary))
                   \/ HasPrefixAt(body, i, nlDashBoundary)
                        /\ matchAfterPrefix(body, i + Len(nlDashBoundary))}
    IN  IF ends = {} THEN [ok |-> FALSE, content |-> Suffix(body, pos), next |-> Len(body) + 1]
        ELSE [ok |-> TRUE, content |-> SubSeq(body, pos, Min(ends) - 1), next |-> Min(ends)]

\* Part.FormName and Part.FileName, from the part's Content-Disposition
dispositionParams(header) ==
    LET WithDisposition(d) ==
            IF d.ok THEN d ELSE [ok |-> FALSE, mediatype |-> Empty, params |-> EmptyMap]
    IN  WithDisposition(ParseMediaType(HeaderGet(header, ContentDispositionKey)))

FormName(disposition) ==
    IF disposition.mediatype # FormData THEN Empty ELSE MapGet(disposition.params, NameParam)

FileName(disposition) ==
    LET WithFilename(filename) == IF filename = Empty THEN Empty ELSE Base(filename)
    IN  WithFilename(MapGet(disposition.params, FilenameParam))

\* the 10 MB that ReadForm reserves for non-file parts on top of maxMemory
NonFileReserve == 10 * 1024 * 1024

\* ReadForm's choice for one file part of n bytes with maxMemory bytes of file memory left:
\* it is kept in memory if it fits, and spilled to a temporary file otherwise
fileStorage(n, maxMemory) == IF n > maxMemory THEN "tmpfile" ELSE "memory"

\* the FileHeader that ReadForm builds for a file part
NewFileHeader(filename, header, content, maxMemory) ==
    [Filename |-> filename, Header |-> header, Size |-> Len(content),
     content |-> fileStorage(Len(content), maxMemory), data |-> content]

\* ReadForm's loop over the parts; form.File maps a field name to its files in body order
RECURSIVE readFormLoop(_, _, _, _, _, _, _)
readFormLoop(body, boundary, pos, partsRead, File, maxMemory, maxValueBytes) ==
    LET fail == [ok |-> FALSE, File |-> EmptyMap]
        WithFile(next, name, fh) ==
            readFormLoop(body, boundary, next, partsRead + 1,
                MapPut(File, name, IF name \in DOMAIN File THEN Append(File[name], fh) ELSE <<fh>>),
                IF fh.content = "memory" THEN maxMemory - fh.Size ELSE maxMemory,
                IF fh.content = "memory" THEN maxValueBytes - fh.Size ELSE maxValueBytes)
        WithContent(header, name, filename, c) ==
            IF name = Empty
            THEN readFormLoop(body, boundary, c.next, partsRead + 1, File, maxMemory, maxValueBytes)
            ELSE IF ~c.ok THEN fail
            ELSE IF filename = Empty
                 THEN IF Len(c.content) > maxValueBytes THEN fail     \* ErrMessageTooLarge
                      ELSE readFormLoop(body, boundary, c.next, partsRead + 1, File,
                                        maxMemory, maxValueBytes - Len(c.content))
            ELSE WithFile(c.next, name, NewFileHeader(filename, header, c.content, maxMemory))
        WithDisposition(h, d) ==
            WithContent(h.header, FormName(d), FileName(d), partContent(body, boundary, h.pos))
        WithHeader(h) ==
            IF h.kind = "eof" THEN [ok |-> TRUE, File |-> File]
            ELSE IF h.kind = "error" THEN fail
            ELSE WithDisposition(h, dispositionParams(h.header))
        WithPart(np) ==
            IF np.kind = "eof" THEN [ok |-> TRUE, File |-> File]
            ELSE IF np.kind = "error" THEN fail
            ELSE WithHeader(readMIMEHeader(body, np.pos, EmptyMap))
    IN  WithPart(nextPart(body, boundary, pos, partsRead, FALSE))

ReadForm(body, boundary, maxMemory) ==
    readFormLoop(body, boundary, 1, 0, EmptyMap, maxMemory, maxMemory + NonFileReserve)

(***************************************************************************)
(* Values shared by the operations.                                        *)
(***************************************************************************)
\* a nil pointer or slice is the empty sequence; a non-nil pointer holds its target
None == <<>>

Some(x) == <<x>>

NoError == "nil"

\* a zero multipart.FileHeader{}: no content and no temporary file (lib_test.go:194)
EmptyFileHeader ==
    [Filename |-> Empty, Header |-> EmptyMap, Size |-> 0, content |-> "none", data |-> Empty]

\* the record of one library call
Call(op, fileHeader, region, bucket, name, err, files, res, bytes, sessions, requests, unclosed) ==
    [op |-> op, fileHeader |-> fileHeader, region |-> region, bucket |-> bucket, name |-> name,
     err |-> err, files |-> files, res |-> res, bytes |-> bytes,
     sessions |-> sessions, requests |-> requests, unclosed |-> unclosed]

NoCall == Call("none", EmptyFileHeader, Empty, Empty, Empty, NoError, None, None, None, 0, 0, 0)

\* the orders in which a range over a Go map may visit the keys in S
Orderings(S) ==
    {o \in [1..Cardinality(S) -> S] : \A i, j \in 1..Cardinality(S) : o[i] = o[j] => i = j}

(***************************************************************************)
(* GetHeaders (lib.go:125-165).                                            *)
(***************************************************************************)
\* a lookup of the key as spelled, without the canonical form
headersGetExact(Headers, key) ==
    IF key \in DOMAIN Headers THEN {Headers[key]} ELSE {Empty}

\* lib.go:129-135: every entry of lambdaReq.Headers is added to an http.Header under its
\* canonical key, in the map's iteration order; Get returns the first value added under
\* "Content-Type", so any entry whose key canonicalises to it may be the one returned
headersGet(Headers, key) ==
    LET same == {k \in DOMAIN Headers : CanonicalMIMEHeaderKey(k) = CanonicalMIMEHeaderKey(key)}
    IN  IF same = {} THEN {Empty} ELSE {Headers[k] : k \in same}

\* lib.go:140-156 for a non-empty content type: the error, and the form's files
parseContentType(lambdaReq, contentType, maxFileSizeBytes) ==
    LET WithForm(form) ==
            IF ~form.ok THEN [err |-> "ErrReadingMultiPartForm", File |-> EmptyMap]
            ELSE [err |-> NoError, File |-> form.File]
        WithBoundary(boundary) ==
            IF boundary = Empty THEN [err |-> "ErrBoundaryValueMissing", File |-> EmptyMap]
            ELSE WithForm(ReadForm(lambdaReq.Body, boundary, maxFileSizeBytes))
        WithMedia(media) ==
            IF ~media.ok THEN [err |-> "ErrParsingMediaType", File |-> EmptyMap]
            ELSE WithBoundary(MapGet(media.params, BoundaryParam))
    IN  WithMedia(ParseMediaType(contentType))

\* the decoding without the check of lib.go:136
decodeFormUnchecked(lambdaReq, contentType, maxFileSizeBytes) ==
    parseContentType(lambdaReq, contentType, maxFileSizeBytes)

\* lib.go:136-156 for one value of the content-type header
decodeForm(lambdaReq, contentType, maxFileSizeBytes) ==
    IF contentType = Empty THEN [err |-> "ErrContentTypeHeaderMissing", File |-> EmptyMap]
    ELSE parseContentType(lambdaReq, contentType, maxFileSizeBytes)

\* the loop of lib.go:160-162 taking the last file of every field name
collectLastFiles(File) ==
    {[i \in 1..Cardinality(DOMAIN File) |-> File[o[i]][Len(File[o[i]])]] :
        o \in Orderings(DOMAIN File)}

\* a files slice that is returned without the loop of lib.go:160-162 having filled it
collectNoFiles(File) == {None}

\* lib.go:158-164: the first file of every field name, in the map's iteration order
collectFiles(File) ==
    {[i \in 1..Cardinality(DOMAIN File) |-> File[o[i]][1]] : o \in Orderings(DOMAIN File)}

\* what GetHeaders returns once the form is decoded (or has failed to)
returned(d) ==
    IF d.err # NoError THEN {[files |-> None, err |-> d.err]}
    ELSE {[files |-> files, err |-> NoError] : files \in collectFiles(d.File)}

\* every (files, err) that GetHeaders may return for the request
GetHeadersOutcomes(lambdaReq, maxFileSizeBytes) ==
    UNION {returned(decodeForm(lambdaReq, contentType, maxFileSizeBytes)) :
             contentType \in headersGet(lambdaReq.Headers, ContentTypeKey)}

GetHeaders ==
    /\ \E out \in GetHeadersOutcomes(input.lambdaReq, input.maxFileSizeBytes) :
          /\ last' = Call("GetHeaders", EmptyFileHeader, Empty, Empty, Empty,
                          out.err, out.files, None, None, 0, 0, 0)
          /\ fileHeaders' = out.files
    /\ UNCHANGED <<input, awsConfigOK, store, history>>

(***************************************************************************)
(* The requests a caller may hand to GetHeaders.  An input records the     *)
(* request (lambdaReq, maxFileSizeBytes) and what its body was generated   *)
(* from (boundary, parts), as generateUploadFileReq does                   *)
(* (lib_test.go:231-282).                                                  *)
(***************************************************************************)
SeqsUpTo(S, n) == UNION {[1..k -> S] : k \in 0..n}

\* "---X" and "---Y"
BoundaryX == <<45, 45, 45, 88>>

BoundaryY == <<45, 45, 45, 89>>

\* file contents are made of the bytes 'x' and 'y'
Contents == SeqsUpTo({120, 121}, MaxContentLen)

\* "sample_file" and "sample_file.csv" (lib_test.go:254), "g", "b.txt"
SampleField == <<115, 97, 109, 112, 108, 101, 95, 102, 105, 108, 101>>

SampleFileName == <<115, 97, 109, 112, 108, 101, 95, 102, 105, 108, 101, 46, 99, 115, 118>>

FieldG == <<103>>

FileB == <<98, 46, 116, 120, 116>>

FilePart(name, filename, content) == [name |-> name, filename |-> filename, content |-> content]

FieldPart(name, value) == [name |-> name, filename |-> Empty, content |-> value]

IsFilePart(part) == part.filename # Empty

\* the first part of a body: the sample file with any content, or a plain form field
FirstParts ==
    {FilePart(SampleField, SampleFileName, c) : c \in Contents} \cup {FieldPart(FieldG, <<120>>)}

\* the parts that may follow it
ExtraParts ==
    {FilePart(FieldG, FileB, <<121>>), FilePart(SampleField, FileB, <<121>>), FieldPart(FieldG, <<121>>)}

PartLists ==
    {<<>>} \cup {<<p>> \o rest : p \in FirstParts, rest \in SeqsUpTo(ExtraParts, MaxParts - 1)}

\* the values of maxFileSizeBytes (an int64) a caller may pass
MaxSizes == (-1)..MaxContentLen

\* the spellings of the content-type key, and a key that is not content-type
LowerKey == <<99, 111, 110, 116, 101, 110, 116, 45, 116, 121, 112, 101>>

UpperKey == <<67, 79, 78, 84, 69, 78, 84, 45, 84, 89, 80, 69>>

ContentTypeSpellings == {LowerKey, ContentTypeKey, UpperKey}

AcceptKey == <<65, 99, 99, 101, 112, 116>>

\* "blah" (lib_test.go:144) and ";;;;;;;;;" (lib_test.go:136)
Blah == <<98, 108, 97, 104>>

Semicolons == <<59, 59, 59, 59, 59, 59, 59, 59, 59>>

\* multipart/form-data; boundary=""
EmptyBoundaryParam == MultipartFormData \o <<59, 32>> \o BoundaryParam \o <<61, 34, 34>>

ContentTypeValues ==
    {FormDataContentType(BoundaryX), FormDataContentType(BoundaryY), Blah, Semicolons, Empty,
     MultipartFormData, EmptyBoundaryParam}

\* lambdaReq.Headers: a Go map[string]string
OneHeader(key, value) == [k \in {key} |-> value]

HeaderMaps ==
    {EmptyMap} \cup {OneHeader(k, v) : k \in ContentTypeSpellings \cup {AcceptKey}, v \in ContentTypeValues}

\* events.APIGatewayProxyRequest: the three fields the library reads
LambdaReq(Headers, Body, IsBase64Encoded) ==
    [Headers |-> Headers, Body |-> Body, IsBase64Encoded |-> IsBase64Encoded]

Input(Headers, Body, IsBase64Encoded, boundary, parts, maxFileSizeBytes) ==
    [lambdaReq |-> LambdaReq(Headers, Body, IsBase64Encoded),
     maxFileSizeBytes |-> maxFileSizeBytes, boundary |-> boundary, parts |-> parts]

\* the request that generateUploadFileReq builds, with the body raw or base64-encoded
GeneratedInput(parts, base64, flag, maxFileSizeBytes) ==
    LET raw == WriteMultipart(BoundaryX, parts)
    IN  Input(OneHeader(ContentTypeKey, FormDataContentType(BoundaryX)),
              IF base64 THEN EncodeToString(raw) ELSE raw, flag, BoundaryX, parts, maxFileSizeBytes)

\* a body cut off before its closing delimiter, and an empty body
TruncatedInput(parts, maxFileSizeBytes) ==
    Input(OneHeader(ContentTypeKey, FormDataContentType(BoundaryX)),
          WriteParts(BoundaryX, parts, 1), FALSE, BoundaryX, parts, maxFileSizeBytes)

SingleFileLists == {<<p>> : p \in {q \in FirstParts : IsFilePart(q)}}

\* a request with any header map, over an empty body, an empty form and a one-file form
HeaderInputs ==
    {Input(h, Empty, FALSE, BoundaryX, <<>>, MaxContentLen) : h \in HeaderMaps}
    \cup {Input(h, WriteMultipart(BoundaryX, parts), FALSE, BoundaryX, parts, MaxContentLen) :
            h \in HeaderMaps,
            parts \in {<<>>, <<FilePart(SampleField, SampleFileName, <<120>>)>>}}

\* a header map with the keys content-type and Content-Type, holding different values
CollidingHeaders ==
    [k \in {LowerKey, ContentTypeKey} |->
        IF k = LowerKey THEN FormDataContentType(BoundaryX) ELSE Blah]

CollidingInputs ==
    {Input(CollidingHeaders, WriteMultipart(BoundaryX, parts), FALSE, BoundaryX, parts,
           MaxContentLen) : parts \in SingleFileLists}

DecodeInputs ==
    {GeneratedInput(parts, FALSE, FALSE, m) : parts \in PartLists, m \in MaxSizes}
    \cup {GeneratedInput(parts, b, f, m) :
            parts \in SingleFileLists, b \in BOOLEAN, f \in BOOLEAN, m \in {0, MaxContentLen}}
    \cup HeaderInputs
    \cup {TruncatedInput(parts, MaxContentLen) : parts \in SingleFileLists}
    \cup CollidingInputs

(***************************************************************************)
(* The decoding pipeline on its own: one request, decoded by GetHeaders.   *)
(***************************************************************************)
NoStore == [k \in {} |-> None]

InitDecode ==
    /\ input \in DecodeInputs
    /\ fileHeaders = None
    /\ awsConfigOK = TRUE
    /\ store = NoStore
    /\ history = NoStore
    /\ last = NoCall

NextDecode == GetHeaders

SpecDecode == InitDecode /\ [][NextDecode]_vars

(***************************************************************************)
(* path/filepath.Join, which builds UploadRes.S3Path (lib.go:218).         *)
(***************************************************************************)
\* strings.Split(path, "/")
RECURSIVE Split(_)
Split(path) ==
    LET slashes == {i \in 1..Len(path) : path[i] = 47}
    IN  IF slashes = {} THEN <<path>>
        ELSE <<SubSeq(path, 1, Min(slashes) - 1)>> \o Split(Suffix(path, Min(slashes) + 1))

\* Clean's pass over the elements: "" and "." are dropped, ".." removes the element before it
RECURSIVE cleanElems(_, _, _, _)
cleanElems(elems, i, out, rooted) ==
    IF i > Len(elems) THEN out
    ELSE IF elems[i] \in {Empty, <<46>>} THEN cleanElems(elems, i + 1, out, rooted)
    ELSE IF elems[i] # <<46, 46>> THEN cleanElems(elems, i + 1, Append(out, elems[i]), rooted)
    ELSE IF out # <<>> /\ out[Len(out)] # <<46, 46>>
         THEN cleanElems(elems, i + 1, SubSeq(out, 1, Len(out) - 1), rooted)
    ELSE IF rooted THEN cleanElems(elems, i + 1, out, rooted)
    ELSE cleanElems(elems, i + 1, Append(out, elems[i]), rooted)

\* strings.Join(elems, "/")
RECURSIVE joinElems(_, _)
joinElems(elems, i) ==
    IF i > Len(elems) THEN Empty
    ELSE IF i = Len(elems) THEN elems[i]
    ELSE elems[i] \o <<47>> \o joinElems(elems, i + 1)

\* filepath.Clean
Clean(path) ==
    LET WithElems(rooted, out) ==
            IF rooted THEN <<47>> \o out
            ELSE IF out = Empty THEN <<46>>
            ELSE out
        WithRoot(rooted) == WithElems(rooted, joinElems(cleanElems(Split(path), 1, <<>>, rooted), 1))
    IN  IF path = Empty THEN <<46>> ELSE WithRoot(path[1] = 47)

\* filepath.Join(bucket, name): the non-empty elements, joined by "/" and cleaned
Join(bucket, name) ==
    IF bucket = Empty /\ name = Empty THEN Empty
    ELSE IF bucket = Empty THEN Clean(name)
    ELSE IF name = Empty THEN Clean(bucket)
    ELSE Clean(bucket \o <<47>> \o name)

(***************************************************************************)
(* The S3 backend the three storage operations talk to, and their          *)
(* parameters.  A request is answered by S3 when it is sent to the region  *)
(* the bucket lives in; store holds the objects, by bucket and key.        *)
(***************************************************************************)
\* "us-east-2" (lib_test.go:26) and "us-east-sean" (lib_test.go:91)
Region == <<117, 115, 45, 101, 97, 115, 116, 45, 50>>

InvalidRegion == <<117, 115, 45, 101, 97, 115, 116, 45, 115, 101, 97, 110>>

\* "golang-s3-lambda-test" (lib_test.go:27)
S3Bucket ==
    <<103, 111, 108, 97, 110, 103, 45, 115, 51, 45, 108, 97, 109, 98, 100, 97, 45, 116, 101, 115, 116>>

\* "file_slash_key_name" (lib_test.go:29), and the key "d//k"
S3FileName ==
    <<102, 105, 108, 101, 95, 115, 108, 97, 115, 104, 95, 107, 101, 121, 95, 110, 97, 109, 101>>

SlashKeyName == <<100, 47, 47, 107>>

\* the key "a b"
SpaceKeyName == <<97, 32, 98>>

\* the (region, bucket, name) a caller passes: the bucket's region with the key of the tests,
\* a key with a double slash and a key with a space; an invalid region (lib_test.go:91); the
\* calls with one parameter empty (lib_test.go:76, 81, 86), with bucket and name empty and
\* with all three empty
Params ==
    ({Region} \X {S3Bucket} \X {S3FileName, SlashKeyName, SpaceKeyName})
    \cup {<<InvalidRegion, S3Bucket, S3FileName>>}
    \cup {<<Empty, S3Bucket, S3FileName>>, <<Region, Empty, S3FileName>>,
          <<Region, S3Bucket, Empty>>, <<Region, Empty, Empty>>, <<Empty, Empty, Empty>>}

\* the region of each bucket that exists
BucketRegion == [b \in {S3Bucket} |-> Region]

\* does S3 answer a request for the bucket that a session of the region sends
requestOK(region, bucket) == bucket \in DOMAIN BucketRegion /\ BucketRegion[bucket] = region

MapDelete(m, k) == [x \in (DOMAIN m) \ {k} |-> m[x]]

\* the SDK's rest.EscapePath for an object key: unreserved bytes and '/' are kept, every
\* other byte becomes %XX
HexDigits == <<48, 49, 50, 51, 52, 53, 54, 55, 56, 57, 65, 66, 67, 68, 69, 70>>

unreserved(c) ==
    \/ c \in 65..90
    \/ c \in 97..122
    \/ c \in 48..57
    \/ c \in {45, 46, 95, 126}

escapeByte(c) ==
    IF unreserved(c) \/ c = 47 THEN <<c>>
    ELSE <<37, HexDigits[(c \div 16) + 1], HexDigits[(c % 16) + 1]>>

RECURSIVE EscapePath(_)
EscapePath(path) ==
    IF path = Empty THEN Empty ELSE escapeByte(path[1]) \o EscapePath(Suffix(path, 2))

\* a URL that addresses the bucket in the path instead of the host name
LocationPathStyle(region, bucket, name) ==
    <<104, 116, 116, 112, 115, 58, 47, 47, 115, 51, 46>> \o region
        \o <<46, 97, 109, 97, 122, 111, 110, 97, 119, 115, 46, 99, 111, 109, 47>>
        \o bucket \o <<47>> \o EscapePath(name)

\* uploadOutput.Location (lib.go:219): the URL of the upload request, which addresses the
\* bucket by host name (lib_test.go:57-63) and carries the key escaped
Location(region, bucket, name) ==
    <<104, 116, 116, 112, 115, 58, 47, 47>> \o bucket \o <<46, 115, 51, 46>> \o region
        \o <<46, 97, 109, 97, 122, 111, 110, 97, 119, 115, 46, 99, 111, 109, 47>>
        \o EscapePath(name)

\* the last successful change of an object: the operation, its region, the content it left
\* (None after a delete) and whether the change before it was an UploadHeader
Change(op, region, content, afterUploadHeader) ==
    [op |-> op, region |-> region, content |-> content, afterUploadHeader |-> afterUploadHeader]

wasUploadHeader(changes, key) == key \in DOMAIN changes /\ changes[key].op = "UploadHeader"

\* one result of a storage operation
Result(err, res, bytes, sessions, requests) ==
    [err |-> err, res |-> res, bytes |-> bytes, sessions |-> sessions, requests |-> requests]

\* lib.go:39-49, 79-89 and 175-185 with the bucket checked before the region
paramErrorBucketFirst(region, bucket, name) ==
    IF bucket = Empty THEN "ErrParameterBucketEmpty"
    ELSE IF region = Empty THEN "ErrParameterRegionEmpty"
    ELSE IF name = Empty THEN "ErrParameterNameEmpty"
    ELSE NoError

\* lib.go:39-49, 79-89 and 175-185 without the check of name
paramErrorNoName(region, bucket, name) ==
    IF region = Empty THEN "ErrParameterRegionEmpty"
    ELSE IF bucket = Empty THEN "ErrParameterBucketEmpty"
    ELSE NoError

\* lib.go:39-49, 79-89 and 175-185: the three parameters are checked in this order
paramError(region, bucket, name) ==
    IF region = Empty THEN "ErrParameterRegionEmpty"
    ELSE IF bucket = Empty THEN "ErrParameterBucketEmpty"
    ELSE IF name = Empty THEN "ErrParameterNameEmpty"
    ELSE NoError

(***************************************************************************)
(* UploadHeader (lib.go:174-221).                                          *)
(***************************************************************************)
\* an Open whose error is not looked at
openErrorIgnored(fileHeader) == FALSE

\* lib.go:187: FileHeader.Open fails on a header with neither content nor temporary file
openFails(fileHeader) == fileHeader.content = "none"

\* lib.go:192-193: file.Read into the nil slice fileContents.  The section reader over a
\* part held in memory reports io.EOF when the part is empty; an *os.File over a temporary
\* file returns (0, nil) for a read of no bytes
readFails(fileHeader) == fileHeader.content = "memory" /\ fileHeader.Size = 0

\* an upload that sends what is left of the file after a read that consumed it
uploadBodyConsumed(fileHeader) == Empty

\* lib.go:208-212: the Body that is uploaded is the file, which the read above left at
\* its start
uploadBody(fileHeader) == fileHeader.data

\* lib.go:187-221: the files UploadHeader has opened and not closed when it returns.  The
\* file that Open returns is closed on no path, and the uploader does not close its Body
unclosedFiles(fileHeader, region, bucket, name) ==
    IF paramError(region, bucket, name) = NoError /\ ~openFails(fileHeader) THEN 1 ELSE 0

UploadHeaderResult(fileHeader, region, bucket, name, configOK) ==
    IF paramError(region, bucket, name) # NoError
    THEN Result(paramError(region, bucket, name), None, None, 0, 0)
    ELSE IF openFails(fileHeader) THEN Result("ErrOpeningMultiPartFile", None, None, 0, 0)
    ELSE IF readFails(fileHeader) THEN Result("ErrReadingMultiPartFile", None, None, 0, 0)
    ELSE IF ~configOK THEN Result("ErrNewAWSSession", None, None, 0, 0)
    ELSE IF ~requestOK(region, bucket)
         THEN Result("ErrUploadingMultiPartFileToS3", None, None, 1, 1)
    ELSE Result(NoError,
                Some([S3Path |-> Join(bucket, name), S3URL |-> Location(region, bucket, name)]),
                None, 1, 1)

\* the caller passes one of the headers GetHeaders returned, or a zero FileHeader
UploadHeader ==
    \E fileHeader \in {fileHeaders[i] : i \in DOMAIN fileHeaders} \cup {EmptyFileHeader},
       <<region, bucket, name>> \in Params :
        LET Returns(r, key) ==
                /\ last' = Call("UploadHeader", fileHeader, region, bucket, name,
                                r.err, None, r.res, r.bytes, r.sessions, r.requests,
                                unclosedFiles(fileHeader, region, bucket, name))
                /\ store' = IF r.err = NoError THEN MapPut(store, key, uploadBody(fileHeader))
                            ELSE store
                /\ history' = IF r.err = NoError
                              THEN MapPut(history, key,
                                          Change("UploadHeader", region, Some(fileHeader.data),
                                                 wasUploadHeader(history, key)))
                              ELSE history
        IN  /\ Returns(UploadHeaderResult(fileHeader, region, bucket, name, awsConfigOK),
                       <<bucket, name>>)
            /\ UNCHANGED <<input, fileHeaders, awsConfigOK>>

(***************************************************************************)
(* Download (lib.go:78-121).                                               *)
(***************************************************************************)
\* a download that accepts an object of no bytes
emptyDownloadAccepted(bytesDownloaded) == FALSE

\* lib.go:116
emptyDownload(bytesDownloaded) == bytesDownloaded = 0

\* a failed download that hands the caller what the buffer holds
failedDownloadWithBuffer(err, buffer) == Result(err, None, Some(buffer), 1, 1)

\* lib.go:112-118: a download that fails, or transfers nothing, returns nil for the bytes,
\* whatever writeAtBuffer holds
failedDownload(err, buffer) == Result(err, None, None, 1, 1)

DownloadResult(region, bucket, name, configOK, objects) ==
    IF paramError(region, bucket, name) # NoError
    THEN Result(paramError(region, bucket, name), None, None, 0, 0)
    ELSE IF ~configOK THEN Result("ErrNewAWSSession", None, None, 0, 0)
    ELSE IF ~requestOK(region, bucket) \/ <<bucket, name>> \notin DOMAIN objects
         THEN failedDownload("ErrDownloadingS3File", Empty)
    ELSE IF emptyDownload(Len(objects[<<bucket, name>>]))
         THEN failedDownload("ErrEmptyFileDownloaded", objects[<<bucket, name>>])
    ELSE Result(NoError, None, Some(objects[<<bucket, name>>]), 1, 1)

Download ==
    \E <<region, bucket, name>> \in Params :
        LET Returns(r) ==
                last' = Call("Download", EmptyFileHeader, region, bucket, name,
                             r.err, None, r.res, r.bytes, r.sessions, r.requests, 0)
        IN  /\ Returns(DownloadResult(region, bucket, name, awsConfigOK, store))
            /\ UNCHANGED <<input, fileHeaders, awsConfigOK, store, history>>

(***************************************************************************)
(* Delete (lib.go:38-72).                                                  *)
(***************************************************************************)
\* a delete that S3 acknowledges without removing the object
deleteObjectKept(objects, key) == objects

\* lib.go:62-71: S3 removes the object; deleting a key that holds none succeeds as well
deleteObject(objects, key) == MapDelete(objects, key)

\* the error of the batch delete is returned as it is, without a sentinel of the library
DeleteResult(region, bucket, name, configOK) ==
    IF paramError(region, bucket, name) # NoError
    THEN Result(paramError(region, bucket, name), None, None, 0, 0)
    ELSE IF ~configOK THEN Result("ErrNewAWSSession", None, None, 0, 0)
    ELSE IF ~requestOK(region, bucket) THEN Result("BatchError", None, None, 1, 1)
    ELSE Result(NoError, None, None, 1, 1)

Delete ==
    \E <<region, bucket, name>> \in Params :
        LET Returns(r, key) ==
                /\ last' = Call("Delete", EmptyFileHeader, region, bucket, name,
                                r.err, None, r.res, r.bytes, r.sessions, r.requests, 0)
                /\ store' = IF r.err = NoError THEN deleteObject(store, key) ELSE store
                /\ history' = IF r.err = NoError
                              THEN MapPut(history, key,
                                          Change("Delete", region, None, wasUploadHeader(history, key)))
                              ELSE history
        IN  /\ Returns(DeleteResult(region, bucket, name, awsConfigOK), <<bucket, name>>)
            /\ UNCHANGED <<input, fileHeaders, awsConfigOK>>

(***************************************************************************)
(* Another client of the bucket: the uploader that the download test uses  *)
(* to put an empty file into the bucket (lib_test.go:97-112).              *)
(***************************************************************************)
\* its session is created in the same environment (lib_test.go:97-100)
ExternalPut ==
    \E name \in {S3FileName} :
        /\ awsConfigOK
        /\ store' = MapPut(store, <<S3Bucket, name>>, Empty)
        /\ history' = MapPut(history, <<S3Bucket, name>>,
                             Change("Upload", Region, Some(Empty),
                                    wasUploadHeader(history, <<S3Bucket, name>>)))
        /\ last' = Call("Upload", EmptyFileHeader, Region, S3Bucket, name,
                        NoError, None, None, None, 1, 1, 0)
        /\ UNCHANGED <<input, fileHeaders, awsConfigOK>>

(***************************************************************************)
(* The library in use: a request is decoded, and its files are uploaded,   *)
(* downloaded and deleted, in any order and with any parameters.           *)
(***************************************************************************)
\* one sample file: full-length content kept in memory or spilled to a temporary file, and
\* an empty file in memory or (maxFileSizeBytes < 0) in a temporary file; and a body that is
\* cut off in its second file
StorageInputs ==
    {GeneratedInput(<<FilePart(SampleField, SampleFileName, c)>>, FALSE, FALSE, m) :
        c \in {Empty, [i \in 1..MaxContentLen |-> 120]}, m \in {-1, MaxContentLen}}
    \cup {TruncatedInput(<<FilePart(SampleField, SampleFileName, <<120>>),
                           FilePart(FieldG, FileB, <<121>>)>>, MaxContentLen)}

Init ==
    /\ input \in StorageInputs
    /\ fileHeaders = None
    /\ awsConfigOK \in BOOLEAN
    /\ store = NoStore
    /\ history = NoStore
    /\ last = NoCall

Next ==
    \/ GetHeaders
    \/ UploadHeader
    \/ Download
    \/ Delete
    \/ ExternalPut

Spec == Init /\ [][Next]_vars

(***************************************************************************)
(* Properties of GetHeaders, checked under SpecDecode.                     *)
(***************************************************************************)
\* the request's only header is a content-type, under any spelling, with the body's boundary
HasMatchingContentType ==
    \E k \in ContentTypeSpellings :
        /\ DOMAIN input.lambdaReq.Headers = {k}
        /\ input.lambdaReq.Headers[k] = FormDataContentType(input.boundary)

FileParts == {i \in 1..Len(input.parts) : IsFilePart(input.parts[i])}

TheFilePart == input.parts[CHOOSE i \in FileParts : TRUE]

\* a well-formed body with exactly one file part, of at most maxFileSizeBytes bytes
SingleFileRequest ==
    /\ HasMatchingContentType
    /\ input.lambdaReq.Body = WriteMultipart(input.boundary, input.parts)
    /\ Cardinality(FileParts) = 1
    /\ Len(TheFilePart.content) <= input.maxFileSizeBytes

Returned == [files |-> last.files, err |-> last.err]

Base64Request ==
    /\ HasMatchingContentType
    /\ input.lambdaReq.IsBase64Encoded
    /\ input.lambdaReq.Body = EncodeToString(WriteMultipart(input.boundary, input.parts))
    /\ Len(input.parts) = 1
    /\ Cardinality(FileParts) = 1
    /\ Len(TheFilePart.content) <= input.maxFileSizeBytes

\* C2: when IsBase64Encoded is set and Body is the base64 encoding of a valid one-file
\* multipart body, GetHeaders returns a nil error and exactly one file header, the result of
\* the raw body with the flag unset
C2_Base64BodyDecoded ==
    (last.op = "GetHeaders" /\ Base64Request) =>
        /\ last.err = NoError
        /\ Len(last.files) = 1
        /\ Returned \in GetHeadersOutcomes(
               LambdaReq(input.lambdaReq.Headers, WriteMultipart(input.boundary, input.parts), FALSE),
               input.maxFileSizeBytes)

\* a well-formed body one of whose file parts is larger than maxFileSizeBytes
OversizedRequest ==
    /\ HasMatchingContentType
    /\ input.lambdaReq.Body = WriteMultipart(input.boundary, input.parts)
    /\ \E i \in FileParts : Len(input.parts[i].content) > input.maxFileSizeBytes

\* C3: a body whose file content exceeds maxFileSizeBytes makes GetHeaders fail with the
\* error of an oversized form and return no file headers, and no file header that a
\* successful GetHeaders returns is larger than maxFileSizeBytes
C3_OversizedRejected ==
    last.op = "GetHeaders" =>
        /\ OversizedRequest => last.err = "ErrReadingMultiPartForm" /\ last.files = None
        /\ last.err = NoError =>
               \A i \in 1..Len(last.files) : last.files[i].Size <= input.maxFileSizeBytes

\* the request with its content-type entry under the key k
Respelled(k) ==
    LambdaReq(OneHeader(k, input.lambdaReq.Headers[CHOOSE h \in DOMAIN input.lambdaReq.Headers : TRUE]),
              input.lambdaReq.Body, input.lambdaReq.IsBase64Encoded)

SingleContentTypeEntry ==
    \E k \in ContentTypeSpellings : DOMAIN input.lambdaReq.Headers = {k}

\* C4: when the Headers map holds a single content-type entry, what GetHeaders returned
\* (file headers and error) is what it returns for the same request with the key spelled
\* content-type, Content-Type or CONTENT-TYPE
C4_HeaderKeyCaseInsensitive ==
    (last.op = "GetHeaders" /\ SingleContentTypeEntry) =>
        \A k \in ContentTypeSpellings :
            Returned \in GetHeadersOutcomes(Respelled(k), input.maxFileSizeBytes)

\* a file has been decoded from a request whose key is spelled content-type
C4_Witness ==
    /\ last.op = "GetHeaders"
    /\ DOMAIN input.lambdaReq.Headers = {LowerKey}
    /\ last.err = NoError
    /\ Len(last.files) = 1

\* the values of the request's content-type entries, under any spelling
ContentTypeEntries ==
    {input.lambdaReq.Headers[k] : k \in DOMAIN input.lambdaReq.Headers \cap ContentTypeSpellings}

\* C5: whatever the body holds, GetHeaders returns ErrContentTypeHeaderMissing when the
\* content-type header is absent or empty; otherwise ErrParsingMediaType when its value
\* (";;;;;;;;;") is not a media type; otherwise ErrBoundaryValueMissing when the value has
\* no boundary parameter or an empty one; and no file headers in each case
C5_HeaderErrorsInOrder ==
    last.op = "GetHeaders" =>
        /\ ContentTypeEntries \subseteq {Empty} =>
               last.err = "ErrContentTypeHeaderMissing" /\ last.files = None
        /\ ContentTypeEntries = {Semicolons} =>
               last.err = "ErrParsingMediaType" /\ last.files = None
        /\ (ContentTypeEntries # {} /\ ContentTypeEntries \subseteq {Blah, MultipartFormData, EmptyBoundaryParam}) =>
               last.err = "ErrBoundaryValueMissing" /\ last.files = None

\* ErrBoundaryValueMissing has been returned for a request whose body holds a valid file
C5_Witness ==
    /\ last.op = "GetHeaders"
    /\ Len(input.parts) = 1
    /\ input.lambdaReq.Body = WriteMultipart(input.boundary, input.parts)
    /\ ContentTypeEntries = {EmptyBoundaryParam}
    /\ last.err = "ErrBoundaryValueMissing"

(***************************************************************************)
(* Properties of UploadHeader, Download and Delete, checked under Spec.    *)
(***************************************************************************)
StorageCall == last.op \in {"UploadHeader", "Download", "Delete"}

\* the parameter errors that match the empty parameters of the last call
MatchingParameterErrors ==
    (IF last.region = Empty THEN {"ErrParameterRegionEmpty"} ELSE {})
    \cup (IF last.bucket = Empty THEN {"ErrParameterBucketEmpty"} ELSE {})
    \cup (IF last.name = Empty THEN {"ErrParameterNameEmpty"} ELSE {})

\* C6: UploadHeader, Download or Delete called with an empty region, bucket or name returns
\* the matching parameter error and a nil result, and creates no session and issues no
\* backend request during the call
C6_EmptyParameterRejected ==
    (StorageCall /\ MatchingParameterErrors # {}) =>
        /\ last.err \in MatchingParameterErrors
        /\ last.res = None
        /\ last.bytes = None
        /\ last.sessions = 0
        /\ last.requests = 0

\* a Delete with only the name empty has returned, with objects in the bucket
C6_Witness ==
    /\ last.op = "Delete"
    /\ last.region = Region
    /\ last.bucket = S3Bucket
    /\ last.name = Empty
    /\ last.err = "ErrParameterNameEmpty"
    /\ DOMAIN store # {}

LastKey == <<last.bucket, last.name>>

\* the last call is a Download of an object whose last change was a successful
\* UploadHeader, in the region of that upload
DownloadAfterUploadHeader ==
    /\ last.op = "Download"
    /\ LastKey \in DOMAIN history
    /\ history[LastKey].op = "UploadHeader"
    /\ history[LastKey].region = last.region

C8_DownloadAfterDelete ==
    ( /\ last.op = "Download"
      /\ last.region # Empty
      /\ LastKey \in DOMAIN history
      /\ history[LastKey].op = "Delete"
      /\ history[LastKey].afterUploadHeader ) =>
        last.err = "ErrDownloadingS3File" /\ last.bytes = None

\* an uploaded object has been deleted and a Download of it, in its region, has failed
C8_Witness ==
    /\ last.op = "Download"
    /\ last.region = Region
    /\ LastKey \in DOMAIN history
    /\ history[LastKey].op = "Delete"
    /\ history[LastKey].afterUploadHeader
    /\ last.err = "ErrDownloadingS3File"

\* C9: a Download of an object that exists and holds zero bytes fails and returns no bytes,
\* with ErrEmptyFileDownloaded when it is sent to the bucket's region; and a successful
\* Download returns at least one byte
C9_EmptyObjectIsFailure ==
    last.op = "Download" =>
        /\ (LastKey \in DOMAIN store /\ store[LastKey] = Empty) =>
               /\ last.err # NoError
               /\ last.bytes = None
               /\ last.region = Region => last.err = "ErrEmptyFileDownloaded"
        /\ last.err = NoError => last.bytes # None /\ Len(last.bytes[1]) >= 1

\* the empty file another uploader put into the bucket has been downloaded
C9_Witness ==
    /\ last.op = "Download"
    /\ LastKey \in DOMAIN history
    /\ history[LastKey].op = "Upload"
    /\ store[LastKey] = Empty
    /\ last.err = "ErrEmptyFileDownloaded"

\* C10: for every non-empty bucket and name, the UploadRes of a successful UploadHeader has
\* the S3Path bucket + "/" + name
C10_S3PathIsBucketSlashName ==
    (last.op = "UploadHeader" /\ last.err = NoError) =>
        last.res[1].S3Path = last.bucket \o <<47>> \o last.name

\* "https://" + bucket + ".s3." + region + ".amazonaws.com/" + name
VirtualHostedURL(region, bucket, name) ==
    <<104, 116, 116, 112, 115, 58, 47, 47>> \o bucket \o <<46, 115, 51, 46>> \o region
        \o <<46, 97, 109, 97, 122, 111, 110, 97, 119, 115, 46, 99, 111, 109, 47>> \o name

UploadSucceeded == last.op = "UploadHeader" /\ last.err = NoError

C12_NoPartialResult ==
    (last.op \in {"GetHeaders", "UploadHeader", "Download"} /\ last.err # NoError) =>
        /\ last.files = None
        /\ last.res = None
        /\ last.bytes = None

\* GetHeaders has failed on a body whose first file is complete and whose second is cut off
C12_Witness ==
    /\ last.op = "GetHeaders"
    /\ last.err = "ErrReadingMultiPartForm"
    /\ Len(input.parts) = 2
    /\ input.lambdaReq.Body = WriteParts(input.boundary, input.parts, 1)

(***************************************************************************)
(* Properties of the files GetHeaders collects, checked under SpecDecode.  *)
(***************************************************************************)
\* a well-formed body under a Content-Type header with its boundary
WellFormedRequest ==
    /\ HasMatchingContentType
    /\ input.lambdaReq.Body = WriteMultipart(input.boundary, input.parts)

FileFieldNames == {input.parts[i].name : i \in FileParts}

\* the first file part of the body under the field name
FirstFilePart(name) == input.parts[Min({i \in FileParts : input.parts[i].name = name})]

\* the returned file headers of the field name
ReturnedFor(name) ==
    {i \in 1..Len(last.files) : FormName(dispositionParams(last.files[i].Header)) = name}

\* C13: when several file parts of a body share a field name, GetHeaders returns without
\* an error exactly one file header for that field name, that of the first such part in
\* the body
C13_FirstFileOfFieldKept ==
    (last.op = "GetHeaders" /\ WellFormedRequest) =>
        /\ last.err = NoError
        /\ \A name \in FileFieldNames :
              /\ Cardinality(ReturnedFor(name)) = 1
              /\ \A i \in ReturnedFor(name) :
                    /\ last.files[i].Filename = FirstFilePart(name).filename
                    /\ last.files[i].data = FirstFilePart(name).content

\* a body with two files under the field name sample_file has been decoded
C13_Witness ==
    /\ last.op = "GetHeaders"
    /\ WellFormedRequest
    /\ Cardinality(FileParts) = 2
    /\ FileFieldNames = {SampleField}
    /\ Len(last.files) = 1
    /\ last.files[1].Filename = SampleFileName

\* where in the body the field name of the i-th returned file header first appears
FirstAppearance(i) ==
    Min({j \in FileParts :
            input.parts[j].name = FormName(dispositionParams(last.files[i].Header))})

\* C14: for a body with file parts under several field names, GetHeaders returns one entry
\* per distinct file field name, in the order in which the field names first appear in the
\* body (so that every call with the request returns the same sequence)
C14_FilesInBodyOrder ==
    (last.op = "GetHeaders" /\ WellFormedRequest) =>
        /\ last.err = NoError
        /\ Len(last.files) = Cardinality(FileFieldNames)
        /\ \A i, j \in 1..Len(last.files) : i < j => FirstAppearance(i) < FirstAppearance(j)

(***************************************************************************)
(* Further properties of the storage operations, checked under Spec.       *)
(***************************************************************************)
AllParametersSet == last.region # Empty /\ last.bucket # Empty /\ last.name # Empty

\* C15: UploadHeader called with non-empty region, bucket and name and a file header that
\* cannot be opened returns ErrOpeningMultiPartFile and a nil UploadRes, with no session
\* created and no upload attempted, whether or not the region is valid
C15_UnopenableHeaderRejected ==
    (last.op = "UploadHeader" /\ AllParametersSet /\ last.fileHeader.content = "none") =>
        /\ last.err = "ErrOpeningMultiPartFile"
        /\ last.res = None
        /\ last.sessions = 0
        /\ last.requests = 0

\* a zero FileHeader has been passed with an invalid region
C15_Witness ==
    /\ last.op = "UploadHeader"
    /\ last.fileHeader = EmptyFileHeader
    /\ last.region = InvalidRegion
    /\ last.bucket = S3Bucket
    /\ last.err = "ErrOpeningMultiPartFile"

\* the errors the library declares (lib.go:22-36)
LibraryErrors ==
    {"ErrBoundaryValueMissing", "ErrContentTypeHeaderMissing", "ErrDownloadingS3File",
     "ErrEmptyFileDownloaded", "ErrNewAWSSession", "ErrOpeningMultiPartFile",
     "ErrParameterBucketEmpty", "ErrParameterNameEmpty", "ErrParameterRegionEmpty",
     "ErrParsingMediaType", "ErrReadingMultiPartFile", "ErrReadingMultiPartForm",
     "ErrUploadingMultiPartFileToS3"}

\* C16: every failure of Delete is reported as one of the library's own errors: a parameter
\* error, the session error, or an error of the library for a failed delete
C16_DeleteErrorsTyped ==
    (last.op = "Delete" /\ last.err # NoError) => last.err \in LibraryErrors

\* C17: UploadHeader, Download and Delete check region, then bucket, then name, and report
\* the first empty one: ErrParameterRegionEmpty when region is empty, whatever bucket and
\* name are; ErrParameterBucketEmpty when region is set and bucket is empty, whatever name
\* is; and in UploadHeader also when the file header cannot be opened
C17_ParametersCheckedInOrder ==
    StorageCall =>
        /\ last.region = Empty => last.err = "ErrParameterRegionEmpty"
        /\ (last.region # Empty /\ last.bucket = Empty) => last.err = "ErrParameterBucketEmpty"
        /\ (last.region # Empty /\ last.bucket # Empty /\ last.name = Empty) =>
               last.err = "ErrParameterNameEmpty"

\* UploadHeader has been called with a zero FileHeader and all three parameters empty
C17_Witness ==
    /\ last.op = "UploadHeader"
    /\ last.fileHeader = EmptyFileHeader
    /\ last.region = Empty
    /\ last.bucket = Empty
    /\ last.name = Empty
    /\ last.err = "ErrParameterRegionEmpty"

(***************************************************************************)
(* Repeated calls of GetHeaders, checked under SpecDecode.                 *)
(***************************************************************************)
\* the Headers map holds several keys that are spellings of content-type
CaseCollidingKeys ==
    /\ Cardinality(DOMAIN input.lambdaReq.Headers) > 1
    /\ DOMAIN input.lambdaReq.Headers \subseteq ContentTypeSpellings

\* C18: when the Headers map holds several keys that differ only in letter case, with
\* different values, two calls of GetHeaders with the request return the same error and
\* the same result
C18_SameResultEveryCall ==
    [][(CaseCollidingKeys /\ last.op = "GetHeaders" /\ last'.op = "GetHeaders") =>
           (last'.err = last.err /\ last'.files = last.files)]_vars

(***************************************************************************)
(* The files UploadHeader opens, checked under Spec.                       *)
(***************************************************************************)
\* C19: UploadHeader retains no open file after it returns: on every return path after a
\* successful fileHeader.Open the opened file has been closed
C19_NoFileLeftOpen ==
    last.op = "UploadHeader" => last.unclosed = 0

====
